---- MODULE Spec2Model ----
(***************************************************************************)
(* Model of src/bot.py: the attendance pipeline process_pdf /              *)
(* generate_chart and the Telegram handler handle_document that calls it.  *)
(*                                                                         *)
(* Two specifications:                                                     *)
(*   SpecPdf  one call of process_pdf, stage by stage, on every document   *)
(*            of a bounded family (tables repeating one header row);       *)
(*   Spec     the handle_document coroutines of the invocations in         *)
(*            Invocations, interleaved at their await points, sharing the  *)
(*            files under TEMP_DIR.                                        *)
(*                                                                         *)
(* Library behaviour modelled (pandas 2.x, matplotlib 3.x):                *)
(*   - DataFrame[labels] returns, for each requested label, every column   *)
(*     carrying it;                                                        *)
(*   - pd.concat aligns columns by label, fills the missing cells with     *)
(*     NaN, and raises InvalidIndexError when the column sets differ and   *)
(*     one of them carries a duplicate label;                              *)
(*   - groupby drops the rows whose key is null and yields the groups in   *)
(*     ascending key order; 'sum' and 'count' skip null cells; 'sum' over  *)
(*     Python objects adds them with +;                                    *)
(*   - plt.bar accepts an empty sequence of bars.                          *)
(***************************************************************************)
EXTENDS Integers, Sequences, FiniteSets, TLC

VARIABLES
    \* ---- one call of process_pdf (SpecPdf)
    pdf,          \* the tables page.extract_tables() yields, in page order
    pcp,          \* the statement of process_pdf the call is at
    tables,       \* local `tables`
    headers,      \* local `headers` (<<>> while None)
    result_df,    \* local `result_df`
    grouped_df,   \* local `grouped_df`
    report_text,  \* local `report_text`
    chart_file,   \* the file at TEMP_DIR/attendance_chart.png
    exc,          \* the exception process_pdf raised, None if none
    \* ---- the handlers (Spec)
    fs,           \* the files under TEMP_DIR: path -> [writer, data]
    pc,           \* per invocation: the await point of handle_document
    msg,          \* per invocation: the message being handled
    chart_path,   \* per invocation: local `chart_path` (Unbound until bound)
    proc_exc,     \* per invocation: what process_pdf raised, None if it returned
    caught,       \* per invocation: the exception line 57 caught, None if none
    wrote,        \* per invocation: line 46-47 has written the PDF
    sent,         \* per invocation: what the user was sent
    removed,      \* per invocation: the writers of the files it removed
    fin_exc,      \* per invocation: what the finally block raised, None if nothing
    outcome       \* per invocation: how the coroutine ended

pdfVars == <<pdf, pcp, tables, headers, result_df, grouped_df, report_text, chart_file, exc>>
botVars == <<fs, pc, msg, chart_path, proc_exc, caught, wrote, sent, removed, fin_exc, outcome>>
vars == <<pdfVars, botVars>>

(***************************************************************************)
(* Values                                                                  *)
(***************************************************************************)
None == "None"      \* Python None: a cell pdfplumber found no text for
NaN == "NaN"        \* the cell pd.concat fills in for a missing column
Unbound == "Unbound" \* a local name no assignment has bound yet

MaxTables == 2      \* tables per document
MaxRows == 2        \* data rows per document, all tables together

Courses == {"Math", "Physics"}
\* ascending string order: the order groupby(sort=True) yields its groups in
CourseOrder == <<"Math", "Physics">>
CourseCells == Courses \cup {None}
StatusCells == {"P", "A", "", None}
Headers == { <<"", "Course", "Date1", "Date2">>, <<"", "Course", "">> }

TEMP_DIR == "/tmp"
ChartName == "attendance_chart.png"

\* a status cell after .replace: a Python int, a Python str, or a null
IntV(n) == [t |-> "int", n |-> n, s |-> ""]
StrV(s) == [t |-> "str", n |-> 0, s |-> s]
NullV == [t |-> "null", n |-> 0, s |-> ""]

EmptyDF == [columns |-> <<>>, rows |-> <<>>]
NoFile == [exists |-> FALSE, bars |-> <<>>]

(***************************************************************************)
(* The documents: every table repeats the header h; its data rows carry a  *)
(* serial number, the course name in the second column and the status in   *)
(* the last one.                                                           *)
(***************************************************************************)
Row(h, cs) ==
    [j \in 1..Len(h) |->
        IF j = 2 THEN cs[1]
        ELSE IF j = Len(h) THEN cs[2]
        ELSE IF j = 1 THEN "1" ELSE "P"]

RECURSIVE SumTo(_, _)
SumTo(f, k) == IF k = 0 THEN 0 ELSE f[k] + SumTo(f, k - 1)

Sizes(nt) == {sz \in [1..nt -> 0..MaxRows] : SumTo(sz, nt) <= MaxRows}

PdfOf(h, sz, rs) ==
    [k \in 1..Len(sz) |->
        <<h>> \o [j \in 1..sz[k] |-> Row(h, rs[SumTo(sz, k - 1) + j])]]

\* p is a document of the family: no table at all, or up to MaxTables tables
\* with up to MaxRows data rows between them
PdfInput(p) ==
    \/ p = <<>>
    \/ \E h \in Headers, nt \in 1..MaxTables :
          \E sz \in Sizes(nt) :
              \E rs \in [1..SumTo(sz, nt) -> CourseCells \X StatusCells] :
                  p = PdfOf(h, sz, rs)

\* the data rows of a document, in page order and within-page order
RECURSIVE DataRows(_)
DataRows(p) == IF p = <<>> THEN <<>> ELSE Tail(Head(p)) \o DataRows(Tail(p))

(***************************************************************************)
(* process_pdf, lines 68-81: one DataFrame per extracted table             *)
(***************************************************************************)
\* lines 72-74: the first row becomes the column labels, the rest the data
ExtractTable(table) == [columns |-> Head(table), rows |-> Tail(table)]

\* the positions of the columns labelled l, ascending
PosOf(cols, l) == SelectSeq([p \in 1..Len(cols) |-> p], LAMBDA p : cols[p] = l)

\* Index.get_indexer_non_unique: every column of every requested label
RECURSIVE Indexer(_, _)
Indexer(cols, labels) ==
    IF labels = <<>> THEN <<>>
    ELSE PosOf(cols, Head(labels)) \o Indexer(cols, Tail(labels))

\* DataFrame.take: the columns at the positions pos
Take(df, pos) ==
    [columns |-> [j \in 1..Len(pos) |-> df.columns[pos[j]]],
     rows |-> [r \in 1..Len(df.rows) |-> [j \in 1..Len(pos) |-> df.rows[r][pos[j]]]]]

\* line 79: df[df.columns[df.columns != headers[0]]]
DropFirstLabel(df, hdrs) ==
    Take(df, Indexer(df.columns, SelectSeq(df.columns, LAMBDA l : l # hdrs[1])))

\* lines 72-81: the body of the loop over the extracted tables;
\* st = [tables, headers], headers = <<>> standing for None
ExtractStep(st, table) ==
    LET df == ExtractTable(table)
    IN  IF st.headers = <<>>
        THEN [tables |-> Append(st.tables, df), headers |-> df.columns]
        ELSE [tables |-> Append(st.tables, DropFirstLabel(df, st.headers)),
              headers |-> st.headers]

\* lines 65-81: the whole loop
RECURSIVE ExtractAll(_, _)
ExtractAll(st, p) ==
    IF p = <<>> THEN st ELSE ExtractAll(ExtractStep(st, Head(p)), Tail(p))

(***************************************************************************)
(* process_pdf, lines 83-87: pd.concat and the canonical header            *)
(***************************************************************************)
Unique(cols) == \A i, j \in 1..Len(cols) : cols[i] = cols[j] => i = j

Has(cols, l) == \E p \in 1..Len(cols) : cols[p] = l

\* union_indexes(sort=False): the labels in order of first appearance
RECURSIVE UnionCols(_, _)
UnionCols(acc, ts) ==
    IF ts = <<>> THEN acc
    ELSE UnionCols(acc \o SelectSeq(Head(ts).columns, LAMBDA l : ~Has(acc, l)), Tail(ts))

\* DataFrame.reindex(columns=cols): cells by label, NaN where df has no such column
Align(df, cols) ==
    [r \in 1..Len(df.rows) |->
        [j \in 1..Len(cols) |->
            IF Has(df.columns, cols[j])
            THEN df.rows[r][PosOf(df.columns, cols[j])[1]]
            ELSE NaN]]

RECURSIVE AllRows(_, _)
AllRows(ts, cols) ==
    IF ts = <<>> THEN <<>> ELSE Align(Head(ts), cols) \o AllRows(Tail(ts), cols)

RECURSIVE RawRows(_)
RawRows(ts) == IF ts = <<>> THEN <<>> ELSE Head(ts).rows \o RawRows(Tail(ts))

\* line 86: pd.concat(tables, ignore_index=True)
Concat(ts) ==
    IF ts = <<>>
    THEN [exc |-> "ValueError: No objects to concatenate", df |-> EmptyDF]
    ELSE IF \A k \in 1..Len(ts) : ts[k].columns = ts[1].columns
    THEN [exc |-> None, df |-> [columns |-> ts[1].columns, rows |-> RawRows(ts)]]
    ELSE IF \E k \in 1..Len(ts) : ~Unique(ts[k].columns)
    THEN [exc |-> "InvalidIndexError: Reindexing only valid with uniquely valued Index objects",
          df |-> EmptyDF]
    ELSE LET cols == UnionCols(<<>>, ts)
         IN  [exc |-> None, df |-> [columns |-> cols, rows |-> AllRows(ts, cols)]]

\* line 87: result_df.columns = headers
SetColumns(df, hdrs) ==
    IF Len(hdrs) # Len(df.columns)
    THEN [exc |-> "ValueError: Length mismatch", df |-> EmptyDF]
    ELSE [exc |-> None, df |-> [columns |-> hdrs, rows |-> df.rows]]

\* lines 86-87
Merge(ts, hdrs) ==
    LET c == Concat(ts)
    IN  IF c.exc # None THEN c ELSE SetColumns(c.df, hdrs)

(***************************************************************************)
(* process_pdf, lines 88-94: the attendance aggregation                    *)
(***************************************************************************)
\* line 89: .replace({'P': 1, 'A': 0}); every other cell is left as it is
Replace(cell) ==
    IF cell = "P" THEN IntV(1)
    ELSE IF cell = "A" THEN IntV(0)
    ELSE IF cell \in {None, NaN} THEN NullV
    ELSE StrV(cell)

\* lines 88-89: the second and the last column, the last one replaced
SelectStatus(df) ==
    IF Len(df.columns) < 2
    THEN [exc |-> "IndexError: positional indexers are out-of-bounds", df |-> EmptyDF]
    ELSE LET two == Take(df, <<2, Len(df.columns)>>)
         IN  [exc |-> None,
              df |-> [columns |-> two.columns,
                      rows |-> [r \in 1..Len(two.rows) |->
                                   <<two.rows[r][1], Replace(two.rows[r][2])>>]]]

\* Python's + on two status values
Add(a, b) ==
    IF a.t = "int" /\ b.t = "int" THEN [exc |-> None, val |-> IntV(a.n + b.n)]
    ELSE IF a.t = "str" /\ b.t = "str" THEN [exc |-> None, val |-> StrV(a.s \o b.s)]
    ELSE [exc |-> "TypeError", val |-> NullV]

\* groupby 'sum' over an object column (group_sum): the non-null values of the
\* group are added up in row order, the first one taken as it is
RECURSIVE SumFold(_, _, _)
SumFold(vals, nobs, sumx) ==
    IF vals = <<>> THEN [exc |-> None, val |-> sumx]
    ELSE IF Head(vals).t = "null" THEN SumFold(Tail(vals), nobs, sumx)
    ELSE IF nobs = 0 THEN SumFold(Tail(vals), 1, Head(vals))
    ELSE LET t == Add(sumx, Head(vals))
         IN  IF t.exc # None THEN t ELSE SumFold(Tail(vals), nobs + 1, t.val)

\* a 'last' where the code has 'sum': the last non-null value of the group
RECURSIVE LastFold(_, _)
LastFold(vals, last) ==
    IF vals = <<>> THEN [exc |-> None, val |-> last]
    ELSE IF Head(vals).t = "null" THEN LastFold(Tail(vals), last)
    ELSE LastFold(Tail(vals), Head(vals))

GroupLast(vals) == LastFold(vals, IntV(0))

GroupSum(vals) == SumFold(vals, 0, IntV(0))

\* groupby 'count': the non-null values of the group
GroupCount(vals) == Len(SelectSeq(vals, LAMBDA v : v.t # "null"))

\* the division of line 94 left out: Sum Present * 100
PercentageNoDiv(sum, count) ==
    IF count = 0 THEN [nan |-> TRUE, v |-> 0]
    ELSE [nan |-> FALSE, v |-> 10000 * sum]

\* line 94: (Sum Present / Count Lecture) * 100, held in hundredths of a
\* percent (the precision the report and the bar labels print); 0 / 0 is nan
Percentage(sum, count) ==
    IF count = 0 THEN [nan |-> TRUE, v |-> 0]
    ELSE [nan |-> FALSE, v |-> (2 * 10000 * sum + count) \div (2 * count)]

\* the status values of the rows whose key is c, in row order
GroupVals(df, c) ==
    LET rs == SelectSeq(df.rows, LAMBDA r : r[1] = c)
    IN  [k \in 1..Len(rs) |-> rs[k][2]]

\* the group keys: the non-null course names present, ascending
GroupKeys(df) ==
    SelectSeq(CourseOrder, LAMBDA c : \E r \in 1..Len(df.rows) : df.rows[r][1] = c)

\* lines 90-94
Aggregate(df) ==
    LET keys == GroupKeys(df)
        sums == [k \in 1..Len(keys) |-> GroupSum(GroupVals(df, keys[k]))]
        counts == [k \in 1..Len(keys) |-> GroupCount(GroupVals(df, keys[k]))]
    IN  IF df.columns[1] = df.columns[2]
        THEN [exc |-> "ValueError: Grouper not 1-dimensional", rows |-> <<>>]
        ELSE IF \E k \in 1..Len(keys) : sums[k].exc # None
        THEN [exc |-> "TypeError: unsupported operand type(s) for +", rows |-> <<>>]
        ELSE IF \E k \in 1..Len(keys) : sums[k].val.t = "str"
        THEN [exc |-> "TypeError: unsupported operand type(s) for /", rows |-> <<>>]
        ELSE [exc |-> None,
              rows |-> [k \in 1..Len(keys) |->
                           [course |-> keys[k],
                            sum |-> sums[k].val.n,
                            count |-> counts[k],
                            percentage |-> Percentage(sums[k].val.n, counts[k])]]]

(***************************************************************************)
(* process_pdf, lines 96-110, and generate_chart                           *)
(***************************************************************************)
\* f"{x:.2f}"
Fmt2(p) ==
    IF p.nan THEN [text |-> "nan", whole |-> 0, frac |-> 0]
    ELSE [text |-> "fixed", whole |-> p.v \div 100, frac |-> p.v % 100]

\* lines 96-105: one block per row of grouped_df
Format(g) ==
    [k \in 1..Len(g) |->
        [course |-> g[k].course,
         present |-> g[k].sum,
         absent |-> g[k].count - g[k].sum,
         total |-> g[k].count,
         percentage |-> Fmt2(g[k].percentage)]]

\* generate_chart, lines 112-139: one bar per row, savefig writes the file
GenerateChart(g) ==
    [exists |-> TRUE,
     bars |-> [k \in 1..Len(g) |->
                  [course |-> g[k].course,
                   height |-> g[k].percentage,
                   label |-> Fmt2(g[k].percentage)]]]

Raised(e) == [exc |-> e, report_text |-> <<>>, chart |-> NoFile]

\* process_pdf, lines 64-110, as one call: what it raises or returns, and the
\* chart it has written
ProcessPdf(p) ==
    LET st == ExtractAll([tables |-> <<>>, headers |-> <<>>], p)
    IN  IF st.tables = <<>> THEN Raised("ValueError: No tables found in the PDF.")
        ELSE LET m == Merge(st.tables, st.headers)
             IN  IF m.exc # None THEN Raised(m.exc)
                 ELSE LET sel == SelectStatus(m.df)
                      IN  IF sel.exc # None THEN Raised(sel.exc)
                          ELSE LET agg == Aggregate(sel.df)
                               IN  IF agg.exc # None THEN Raised(agg.exc)
                                   ELSE [exc |-> None,
                                         report_text |-> Format(agg.rows),
                                         chart |-> GenerateChart(agg.rows)]

(***************************************************************************)
(* The handler's world: the invocations, the messages they receive, the    *)
(* files under TEMP_DIR                                                    *)
(***************************************************************************)
Invocations == {1, 2}

GoodPdf == << << <<"", "Course", "Date1", "Date2">>, <<"1", "Math", "P", "P">> >> >>
NoTablesPdf == <<>>
PdfNames == {"a.pdf", "b.pdf"}
Messages ==
    {[file_name |-> n, data |-> d] : n \in PdfNames, d \in {GoodPdf, NoTablesPdf}}
    \cup {[file_name |-> "notes.txt", data |-> NoTablesPdf]}

\* os.path.join(TEMP_DIR, name)
Join(dir, name) == dir \o "/" \o name

Paths == {Join(TEMP_DIR, n) : n \in PdfNames \cup {ChartName}}
Missing == [exists |-> FALSE, writer |-> 0, data |-> <<>>]
NothingSent == [invalid |-> FALSE, report |-> FALSE, photo |-> 0, error |-> None]

InitBot ==
    /\ fs = [p \in Paths |-> Missing]
    /\ pc = [i \in Invocations |-> "idle"]
    /\ msg = [i \in Invocations |-> [file_name |-> "", data |-> <<>>]]
    /\ chart_path = [i \in Invocations |-> Unbound]
    /\ proc_exc = [i \in Invocations |-> None]
    /\ caught = [i \in Invocations |-> None]
    /\ wrote = [i \in Invocations |-> FALSE]
    /\ sent = [i \in Invocations |-> NothingSent]
    /\ removed = [i \in Invocations |-> {}]
    /\ fin_exc = [i \in Invocations |-> None]
    /\ outcome = [i \in Invocations |-> "running"]

(***************************************************************************)
(* SpecPdf: one call of process_pdf, statement by statement                *)
(***************************************************************************)
InitPdf ==
    /\ PdfInput(pdf)
    /\ pcp = "extract"
    /\ tables = <<>>
    /\ headers = <<>>
    /\ result_df = EmptyDF
    /\ grouped_df = <<>>
    /\ report_text = <<>>
    /\ chart_file = NoFile
    /\ exc = None
    /\ InitBot

\* lines 69-81: the next extracted table
Extract ==
    /\ pcp = "extract"
    /\ Len(tables) < Len(pdf)
    /\ LET st == ExtractStep([tables |-> tables, headers |-> headers], pdf[Len(tables) + 1])
       IN  /\ tables' = st.tables
           /\ headers' = st.headers
    /\ UNCHANGED <<pdf, pcp, result_df, grouped_df, report_text, chart_file, exc, botVars>>

\* lines 83-84 left out: the call goes on to pd.concat whatever `tables` holds
CheckTablesUnguarded ==
    /\ pcp = "extract"
    /\ Len(tables) = Len(pdf)
    /\ pcp' = "concat"
    /\ UNCHANGED <<pdf, tables, headers, result_df, grouped_df, report_text, chart_file, exc, botVars>>

\* lines 83-84
CheckTables ==
    /\ pcp = "extract"
    /\ Len(tables) = Len(pdf)
    /\ IF tables = <<>>
       THEN /\ pcp' = "raised"
            /\ exc' = "ValueError: No tables found in the PDF."
       ELSE /\ pcp' = "concat"
            /\ exc' = exc
    /\ UNCHANGED <<pdf, tables, headers, result_df, grouped_df, report_text, chart_file, botVars>>

\* lines 86-87
ConcatTables ==
    /\ pcp = "concat"
    /\ LET m == Merge(tables, headers)
       IN  IF m.exc # None
           THEN /\ pcp' = "raised"
                /\ exc' = m.exc
                /\ result_df' = result_df
           ELSE /\ pcp' = "select"
                /\ exc' = exc
                /\ result_df' = m.df
    /\ UNCHANGED <<pdf, tables, headers, grouped_df, report_text, chart_file, botVars>>

\* lines 88-89
SelectColumns ==
    /\ pcp = "select"
    /\ LET sel == SelectStatus(result_df)
       IN  IF sel.exc # None
           THEN /\ pcp' = "raised"
                /\ exc' = sel.exc
                /\ result_df' = result_df
           ELSE /\ pcp' = "groupby"
                /\ exc' = exc
                /\ result_df' = sel.df
    /\ UNCHANGED <<pdf, tables, headers, grouped_df, report_text, chart_file, botVars>>

\* lines 90-94
GroupBy ==
    /\ pcp = "groupby"
    /\ LET agg == Aggregate(result_df)
       IN  IF agg.exc # None
           THEN /\ pcp' = "raised"
                /\ exc' = agg.exc
                /\ grouped_df' = grouped_df
           ELSE /\ pcp' = "format"
                /\ exc' = exc
                /\ grouped_df' = agg.rows
    /\ UNCHANGED <<pdf, tables, headers, result_df, report_text, chart_file, botVars>>

\* lines 96-105
FormatReport ==
    /\ pcp = "format"
    /\ report_text' = Format(grouped_df)
    /\ pcp' = "chart"
    /\ UNCHANGED <<pdf, tables, headers, result_df, grouped_df, chart_file, exc, botVars>>

\* lines 107-108
Chart ==
    /\ pcp = "chart"
    /\ chart_file' = GenerateChart(grouped_df)
    /\ pcp' = "return"
    /\ UNCHANGED <<pdf, tables, headers, result_df, grouped_df, report_text, exc, botVars>>

\* line 110
Return ==
    /\ pcp = "return"
    /\ pcp' = "returned"
    /\ UNCHANGED <<pdf, tables, headers, result_df, grouped_df, report_text, chart_file, exc, botVars>>

NextPdf ==
    \/ Extract
    \/ CheckTables
    \/ ConcatTables
    \/ SelectColumns
    \/ GroupBy
    \/ FormatReport
    \/ Chart
    \/ Return

SpecPdf == InitPdf /\ [][NextPdf]_vars

(***************************************************************************)
(* Spec: the handle_document coroutines, one step per await point.  What   *)
(* runs between two awaits runs without interleaving (asyncio), so it is   *)
(* one action.  Every Telegram call may raise.                             *)
(***************************************************************************)
ChartPath == Join(TEMP_DIR, ChartName)

\* line 42
FilePath(i) == Join(TEMP_DIR, msg[i].file_name)

\* line 38: document.file_name.endswith('.pdf')
EndsWithPdf(name) == name \in PdfNames

ApiError == "TelegramAPIError"

Init ==
    /\ InitBot
    /\ pdf = <<>>
    /\ pcp = "idle"
    /\ tables = <<>>
    /\ headers = <<>>
    /\ result_df = EmptyDF
    /\ grouped_df = <<>>
    /\ report_text = <<>>
    /\ chart_file = NoFile
    /\ exc = None

\* lines 59-62, entered with the exception that is propagating (None if none):
\* os.remove raises when the file is gone, the read of an unbound chart_path
\* raises, and either ends the block there
Finally(i, pending) ==
    LET path == FilePath(i)
        gone == ~fs[path].exists
        fs1 == IF gone THEN fs ELSE [fs EXCEPT ![path] = Missing]
        unbound == chart_path[i] = Unbound
        dropChart == ~gone /\ ~unbound /\ fs1[ChartPath].exists
        fin == IF gone THEN "FileNotFoundError"
               ELSE IF unbound THEN "UnboundLocalError"
               ELSE None
    IN  /\ fs' = IF dropChart THEN [fs1 EXCEPT ![ChartPath] = Missing] ELSE fs1
        /\ removed' = [removed EXCEPT ![i] =
                          @ \cup (IF gone THEN {} ELSE {fs[path].writer})
                            \cup (IF dropChart THEN {fs1[ChartPath].writer} ELSE {})]
        /\ fin_exc' = [fin_exc EXCEPT ![i] = fin]
        /\ outcome' = [outcome EXCEPT ![i] =
                          IF fin # None THEN fin
                          ELSE IF pending # None THEN pending
                          ELSE "returned"]
        /\ pc' = [pc EXCEPT ![i] = "ended"]

\* lines 36-43: up to the first await
Receive(i, m) ==
    /\ pc[i] = "idle"
    /\ msg' = [msg EXCEPT ![i] = m]
    /\ pc' = [pc EXCEPT ![i] = IF EndsWithPdf(m.file_name) THEN "await43" ELSE "await39"]
    /\ UNCHANGED <<fs, chart_path, proc_exc, caught, wrote, sent, removed, fin_exc, outcome, pdfVars>>

\* lines 39-40
Await39(i, ok) ==
    /\ pc[i] = "await39"
    /\ sent' = [sent EXCEPT ![i].invalid = ok]
    /\ outcome' = [outcome EXCEPT ![i] = IF ok THEN "returned" ELSE ApiError]
    /\ pc' = [pc EXCEPT ![i] = "ended"]
    /\ UNCHANGED <<fs, msg, chart_path, proc_exc, caught, wrote, removed, fin_exc, pdfVars>>

\* line 43: bot.get_file, outside the try
Await43(i, ok) ==
    /\ pc[i] = "await43"
    /\ pc' = [pc EXCEPT ![i] = IF ok THEN "await44" ELSE "ended"]
    /\ outcome' = [outcome EXCEPT ![i] = IF ok THEN @ ELSE ApiError]
    /\ UNCHANGED <<fs, msg, chart_path, proc_exc, caught, wrote, sent, removed, fin_exc, pdfVars>>

\* line 44, a failed download: outside the try, nothing written yet
Await44Fails(i) ==
    /\ pc[i] = "await44"
    /\ pc' = [pc EXCEPT ![i] = "ended"]
    /\ outcome' = [outcome EXCEPT ![i] = ApiError]
    /\ UNCHANGED <<fs, msg, chart_path, proc_exc, caught, wrote, sent, removed, fin_exc, pdfVars>>

\* lines 44-52: the download completes, the PDF is written, process_pdf runs
\* (and writes the chart), up to the await of line 52 or, if it raised, line 58
Await44(i) ==
    /\ pc[i] = "await44"
    /\ LET path == FilePath(i)
           fs1 == [fs EXCEPT ![path] = [exists |-> TRUE, writer |-> i, data |-> msg[i].data]]
           r == ProcessPdf(fs1[path].data)
       IN  /\ fs' = IF r.chart.exists
                    THEN [fs1 EXCEPT ![ChartPath] =
                             [exists |-> TRUE, writer |-> i, data |-> r.chart.bars]]
                    ELSE fs1
           /\ IF r.exc = None
              THEN /\ chart_path' = [chart_path EXCEPT ![i] = ChartPath]
                   /\ pc' = [pc EXCEPT ![i] = "await52"]
                   /\ UNCHANGED <<proc_exc, caught>>
              ELSE /\ proc_exc' = [proc_exc EXCEPT ![i] = r.exc]
                   /\ caught' = [caught EXCEPT ![i] = r.exc]
                   /\ pc' = [pc EXCEPT ![i] = "await58"]
                   /\ UNCHANGED chart_path
    /\ wrote' = [wrote EXCEPT ![i] = TRUE]
    /\ UNCHANGED <<msg, sent, removed, fin_exc, outcome, pdfVars>>

\* lines 52-55: the report is sent (or the send raises, caught at line 57)
Await52(i, ok) ==
    /\ pc[i] = "await52"
    /\ IF ok
       THEN /\ sent' = [sent EXCEPT ![i].report = TRUE]
            /\ pc' = [pc EXCEPT ![i] = "await55"]
            /\ UNCHANGED caught
       ELSE /\ caught' = [caught EXCEPT ![i] = ApiError]
            /\ pc' = [pc EXCEPT ![i] = "await58"]
            /\ UNCHANGED sent
    /\ UNCHANGED <<fs, msg, chart_path, proc_exc, wrote, removed, fin_exc, outcome, pdfVars>>

\* line 55, the upload raises: the file at chart_path is gone, or Telegram fails
Await55Fails(i) ==
    /\ pc[i] = "await55"
    /\ caught' = [caught EXCEPT ![i] =
                     IF fs[chart_path[i]].exists THEN ApiError ELSE "FileNotFoundError"]
    /\ pc' = [pc EXCEPT ![i] = "await58"]
    /\ UNCHANGED <<fs, msg, chart_path, proc_exc, wrote, sent, removed, fin_exc, outcome, pdfVars>>

\* lines 55-62: the file at chart_path is read and sent, then the finally block
Await55(i) ==
    /\ pc[i] = "await55"
    /\ fs[chart_path[i]].exists
    /\ sent' = [sent EXCEPT ![i].photo = fs[chart_path[i]].writer]
    /\ Finally(i, None)
    /\ UNCHANGED <<msg, chart_path, proc_exc, caught, wrote, pdfVars>>

\* lines 57-62: the error message is sent (or that send raises), then the
\* finally block
Await58(i, ok) ==
    /\ pc[i] = "await58"
    /\ sent' = [sent EXCEPT ![i].error = IF ok THEN caught[i] ELSE @]
    /\ Finally(i, IF ok THEN None ELSE ApiError)
    /\ UNCHANGED <<msg, chart_path, proc_exc, caught, wrote, pdfVars>>

Next ==
    \E i \in Invocations :
        \/ \E m \in Messages : Receive(i, m)
        \/ \E ok \in BOOLEAN : Await39(i, ok)
        \/ \E ok \in BOOLEAN : Await43(i, ok)
        \/ Await44Fails(i)
        \/ Await44(i)
        \/ \E ok \in BOOLEAN : Await52(i, ok)
        \/ Await55Fails(i)
        \/ Await55(i)
        \/ \E ok \in BOOLEAN : Await58(i, ok)

Spec == Init /\ [][Next]_vars

(***************************************************************************)
(* Properties of process_pdf (checked under SpecPdf)                       *)
(***************************************************************************)
\* the call has passed line 94 without raising
Grouped == pcp \in {"format", "chart", "return", "returned"}

\* the exceptions lines 90-94 raise
GroupByErrors ==
    {"ValueError: Grouper not 1-dimensional",
     "TypeError: unsupported operand type(s) for +",
     "TypeError: unsupported operand type(s) for /"}

\* the exceptions lines 86-87 raise
MergeErrors ==
    {"ValueError: No objects to concatenate",
     "InvalidIndexError: Reindexing only valid with uniquely valued Index objects",
     "ValueError: Length mismatch"}

\* the status cells of the document: the last cell of every data row
StatusOf(p) == {DataRows(p)[r][Len(DataRows(p)[r])] : r \in 1..Len(DataRows(p))}

\* the number of data rows of the document that carry the course name c
Occurrences(p, c) == Cardinality({r \in 1..Len(DataRows(p)) : DataRows(p)[r][2] = c})

\* C1: for every non-empty sequence of tables repeating one header row, the
\* merged table (lines 86-87) exists and has as many rows as the tables have
\* data rows, in page order and within-page order.
C1_MergeKeepsEveryRow ==
    /\ (pcp = "raised" /\ tables # <<>>) => exc \notin MergeErrors
    /\ pcp = "select" =>
          /\ Len(result_df.rows) = Len(DataRows(pdf))
          /\ \A r \in 1..Len(result_df.rows) :
                \A j \in 2..Len(headers) :
                    headers[j] # headers[1] => result_df.rows[r][j] = DataRows(pdf)[r][j]

\* C2: once the groups are computed there is exactly one CourseStats per
\* distinct course name, its lectureCount is the number of data rows that
\* carry the name, and so it is at least 1.
C2_OneStatPerCourse ==
    Grouped =>
        /\ \A c \in Courses :
              Cardinality({k \in 1..Len(grouped_df) : grouped_df[k].course = c})
                 = (IF Occurrences(pdf, c) > 0 THEN 1 ELSE 0)
        /\ \A k \in 1..Len(grouped_df) :
              /\ grouped_df[k].count = Occurrences(pdf, grouped_df[k].course)
              /\ grouped_df[k].count >= 1

\* C3: when every status cell is P or A, every CourseStats has
\* presentCount <= lectureCount and a percentage between 0 and 100.
C3_StatsInRange ==
    (Grouped /\ StatusOf(pdf) \subseteq {"P", "A"}) =>
        \A k \in 1..Len(grouped_df) :
            /\ 0 <= grouped_df[k].sum
            /\ grouped_df[k].sum <= grouped_df[k].count
            /\ ~grouped_df[k].percentage.nan
            /\ 0 <= grouped_df[k].percentage.v
            /\ grouped_df[k].percentage.v <= 100 * 100

C3_Witness ==
    /\ pcp = "format"
    /\ StatusOf(pdf) \subseteq {"P", "A"}
    /\ \E k \in 1..Len(grouped_df) :
          0 < grouped_df[k].sum /\ grouped_df[k].sum < grouped_df[k].count

\* C4: when some status cell is outside {P, A}, no report text is built, no
\* chart is written and the call does not return.
C4_OutOfVocabularyRaises ==
    (StatusOf(pdf) \ {"P", "A"} # {}) =>
        /\ pcp \notin {"chart", "return", "returned"}
        /\ report_text = <<>>
        /\ ~chart_file.exists

\* C5: with no CourseStats to draw, rendering raises and the chart file is
\* neither created nor overwritten.
C5_EmptyStatsNotRendered ==
    (pcp \in {"chart", "return", "returned"} /\ grouped_df = <<>>) =>
        /\ ~chart_file.exists
        /\ pcp # "returned"

\* C6: when no table was extracted, process_pdf raises the no-tables error
\* before it merges, aggregates, formats or renders anything.
C6_NoTablesRaisesFirst ==
    (pcp # "extract" /\ tables = <<>>) =>
        /\ pcp = "raised"
        /\ exc = "ValueError: No tables found in the PDF."
        /\ result_df = EmptyDF
        /\ grouped_df = <<>>
        /\ report_text = <<>>
        /\ ~chart_file.exists

C6_Witness == pcp = "raised" /\ tables = <<>> /\ pdf = <<>>

\* the reorderings of the rows of df that move rows only within their course
SameCoursePerms(df) ==
    {q \in [1..Len(df.rows) -> 1..Len(df.rows)] :
        /\ \A a, b \in 1..Len(df.rows) : q[a] = q[b] => a = b
        /\ \A a \in 1..Len(df.rows) : df.rows[q[a]][1] = df.rows[a][1]}

Permuted(df, q) == [columns |-> df.columns, rows |-> [a \in 1..Len(df.rows) |-> df.rows[q[a]]]]

\* C9: reordering the rows within the course groups changes nothing of what
\* lines 90-94 compute: the same presentCount, lectureCount and percentage
\* per course, or the same exception.
C9_RowOrderIrrelevant ==
    (Grouped \/ (pcp = "raised" /\ exc \in GroupByErrors)) =>
        \A q \in SameCoursePerms(result_df) :
            Aggregate(Permuted(result_df, q)) = [exc |-> exc, rows |-> grouped_df]

C9_Witness ==
    /\ pcp = "format"
    /\ \E q \in SameCoursePerms(result_df) : Permuted(result_df, q) # result_df
    /\ \E k \in 1..Len(grouped_df) :
          0 < grouped_df[k].sum /\ grouped_df[k].sum < grouped_df[k].count

(***************************************************************************)
(* Properties of handle_document (checked under Spec)                      *)
(***************************************************************************)
\* C7: an invocation sends and removes only files it wrote itself.
C7_OwnFilesOnly ==
    \A i \in Invocations :
        /\ sent[i].photo \in {0, i}
        /\ removed[i] \subseteq {i}

\* C8: once an invocation has written its PDF, it ends with no file it
\* wrote (PDF or chart) left on disk.
C8_NothingLeftBehind ==
    \A i \in Invocations :
        (pc[i] = "ended" /\ wrote[i]) =>
            \A p \in Paths : fs[p].exists => fs[p].writer # i

\* C10: when process_pdf raised, the finally block raises nothing, and once
\* the error message is sent the handler completes normally.
C10_CleanupAfterFailure ==
    \A i \in Invocations :
        (pc[i] = "ended" /\ proc_exc[i] # None) =>
            /\ fin_exc[i] = None
            /\ sent[i].error # None => outcome[i] = "returned"

====
